---- MODULE Spec2Model ----
(***************************************************************************)
(* Model of farrow-auth-session: the request-scoped session context        *)
(* (createSessionCtx), and the per-request algorithm of the middleware     *)
(* built by createFarrowSession, run against an arbitrary SessionStore and *)
(* SessionParser whose results are chosen nondeterministically (Spec), or  *)
(* against cookieSessionStore and cookieSessionParser with a client that   *)
(* holds the two cookies (SpecCookie).                                     *)
(*                                                                         *)
(* JavaScript values are modelled as strings: "undefined", "null", "true", *)
(* "false"; user data is "d0" (a falsy value such as 0 or ""), "d1", or    *)
(* "{}" (the empty object the cookie store creates).                       *)
(***************************************************************************)
EXTENDS Integers, Sequences, FiniteSets, TLC

\* Bounds of the model.
MaxSteps == 2       \* session operations one handler performs
MaxSids == 2        \* session ids the cookie store generates
MaxTime == 3        \* last instant of the clock

\* cookieOptions.maxAge and renewBefore of the cookie store, in clock ticks.
MaxAge == 2
RenewBefore == 1

\* A longer maxAge with an earlier renewBefore, for requests that overlap.
LongMaxAge == 3
EarlyRenewBefore == 2

\* Value domains.
Data == {"d0", "d1"}
Creds == {"c1"}
Tri == {"true", "false", "undefined"}
ParserGetResults == Creds \cup {"null"}
StoreGetResults == Data \cup {"null", "undefined"}
StoreCreateResults == Data \cup {"undefined"}
SetValues == Data \cup {"undefined"}
DefaultValues == {"undefined", "d1"}

VARIABLES
  config,            \* SessionConfig plus the default of createSessionCtx
  pc,                \* position of the middleware in the current request
  cred,              \* result of sessionParser.get(request)
  data,              \* sessionUserDataCtx value of the request's container
  modified,          \* modifiedStateCtx value of the request's container
  targetIsModified,  \* own isModified field of the proxy target object
  sessionHeaders,    \* sessionHeaderCtx value of the request's container
  log,               \* Store / Parser calls made in the request, in order
  ops,               \* operations the handler performed, with their results
  nextCalls,         \* how often the middleware called next() in the request
  response,          \* what the middleware returned for the request
  sessionMeta,       \* sessionMetaDataCtx value of the request's container
  nextId,            \* number of the next session id ulid() generates
  now,               \* Date.now()
  jar,               \* the client's cookies: sess:k and sess:data
  replayed,          \* history: the cookies presented are those of a request
                     \* whose destroy() returned true
  other,             \* the container of a second request, which is suspended
  self               \* the request that is running: 1 or 2

vars == <<config, pc, cred, data, modified, targetIsModified,
          sessionHeaders, log, ops, nextCalls, response,
          sessionMeta, nextId, now, jar, replayed, other, self>>

\* What no step of the middleware changes, and what belongs to the cookies.
clientVars == <<now, jar, replayed, other, self>>
cookieVars == <<sessionMeta, nextId, now, jar, replayed, other, self>>

\* ---------------------------------------------------------------- helpers

\* JavaScript `!v`.
Falsy(v) == v \in {"undefined", "null", "false", "d0"}

\* `r || false`.
OrFalse(r) == IF Falsy(r) THEN "false" ELSE r

NoResponse == [status |-> 0, headers |-> <<>>, body |-> "none"]
HandlerResponse == [status |-> 200, headers |-> <<>>, body |-> "handler"]

\* Response.json({ error }).status(code)
ErrorResponse(code, msg) == [status |-> code, headers |-> <<>>, body |-> msg]

\* Response.merge(...sessionHeaders).merge(response)
MergeResponse(hs, resp) ==
  [status |-> resp.status, headers |-> hs \o resp.headers, body |-> resp.body]

\* The request-scoped state as one record, so that nested calls compose.
\* ok: every store result assumed so far is the one the store returns.
Cur == [data |-> data, modified |-> modified, headers |-> sessionHeaders,
        log |-> log, meta |-> sessionMeta, nextId |-> nextId, ok |-> TRUE]

Install(s) ==
  /\ s.ok
  /\ data' = s.data
  /\ modified' = s.modified
  /\ sessionHeaders' = s.headers
  /\ log' = s.log
  /\ sessionMeta' = s.meta
  /\ nextId' = s.nextId

\* ------------------------------------------------------- createSessionCtx

\* Mutant: isModified is read from the proxy target's own field.
CtxIsModifiedOfTarget(s) == targetIsModified

\* proxy get trap, prop === 'isModified'
CtxIsModified(s) == s.modified

\* proxy get trap, prop === 'get'
CtxGet(s) == s.data

\* The flag value the proxy's set leaves behind.
SetFlag(m) == TRUE

\* proxy get trap, prop === 'set': mark modified, then ctx.set(value)
CtxSet(s, v) == [s EXCEPT !.modified = SetFlag(@), !.data = v]

\* ------------------------------------------------- parser calls + headers

\* Mutant: the new mutation replaces the accumulated ones.
PushHeaderReplaces(hs, h) == <<h>>

\* sessionHeaderCtx.set([...sessionHeaderCtx.get(), sessionHeader])
PushHeader(hs, h) == Append(hs, h)

\* A response mutation: what it does (kind) and, for a cookie it writes,
\* the session id, the user data and the expiry time it carries.
\* given is history: the data the caller handed to the store operation that
\* wrote a data cookie.
Header(kind, sid, d, e) ==
  [kind |-> kind, sid |-> sid, data |-> d, expires |-> e, given |-> "-"]

\* The kinds of a sequence of response mutations, in order.
Kinds(hs) == [i \in 1..Len(hs) |-> hs[i].kind]

\* ---------------------------------- cookieSessionParser, cookieSessionStore

EmptyObj == "{}"

\* sessionMetaDataCtx holds undefined.
NoMeta == [sessionId |-> "none", expiresTime |-> 0]

\* ulid(): the n-th session id generated.
Sid(n) == "s" \o ToString(n)
AllSids == {Sid(n) : n \in 1..MaxSids}

\* Buffer.from(id).toString('base64') and its inverse; decoding a string that
\* encodes no session id gives some other string.
Encode(sessionId) == "b64:" \o sessionId
Decode(encoded) ==
  IF \E x \in AllSids : Encode(x) = encoded
    THEN CHOOSE x \in AllSids : Encode(x) = encoded
    ELSE "garbage"

\* The request carries no such cookie.
NoCookie == "none"
NoPayload == [iv |-> "none", data |-> "-", expires |-> 0, given |-> "-"]

\* A sess:data value that no session id decrypts to JSON.
GarbledPayload == [iv |-> "garbled", data |-> "-", expires |-> 0, given |-> "-"]

\* aes-256-cbc of JSON.stringify({_data, _expires}) with iv = idToIv(sessionId)
Encrypt(sessionId, d, e) == [iv |-> sessionId, data |-> d, expires |-> e]

\* Decryption and JSON.parse succeed only with the iv of the encryption.
DecryptFails(sessionId, payload) == payload.iv # sessionId

\* Response.cookie(sessionStoreKey, encrypted, cookieOptions)
DataCookie(sessionId, d, e, given) ==
  LET c == Encrypt(sessionId, d, e) IN
  [kind |-> "data", sid |-> c.iv, data |-> c.data, expires |-> c.expires,
   given |-> given]

\* Response.cookie(sessionStoreKey, '', {expires: new Date(0), maxAge: 0})
ClearDataCookie == Header("cleardata", "-", "-", 0)

\* The encrypted value a data cookie mutation writes.
Payload(h) ==
  [iv |-> h.sid, data |-> h.data, expires |-> h.expires, given |-> h.given]

\* Mutant: the expiry time is never recomputed.
NewExpiresTimeKeeps(old) == old

\* Mutant: the expiry time is recomputed on every call.
NewExpiresTimeAlways(old) == now + config.maxAge

\* Mutant: renew compares with <= instead of <.
NewExpiresTimeRenewsEarly(old) ==
  IF config.rolling THEN now + config.maxAge
  ELSE IF config.renew /\ old - now <= config.renewBefore THEN now + config.maxAge
  ELSE old

\* Mutant: a renewal counts from the old expiry time instead of from now.
NewExpiresTimeFromOld(old) ==
  IF config.rolling THEN old + config.maxAge
  ELSE IF config.renew /\ old - now < config.renewBefore THEN old + config.maxAge
  ELSE old

\* The expiry time get and set publish, by policy.
NewExpiresTime(old) ==
  IF config.rolling THEN now + config.maxAge
  ELSE IF config.renew /\ old - now < config.renewBefore THEN now + config.maxAge
  ELSE old

\* cookieSessionParser.get
CookieParserGet ==
  IF jar.sid = NoCookie THEN "null" ELSE Decode(jar.sid)

\* cookieSessionParser.set / remove
CookieParserSet(s) ==
  IF s.meta = NoMeta THEN Header("noop", "-", "-", 0)
  ELSE Header("set", Encode(s.meta.sessionId), "-", s.meta.expiresTime)

CookieParserRemove == Header("remove", "-", "-", 0)

\* Mutant: create leaves the published session metadata as it finds it.
CookieCreateKeepsMeta(s, userData) ==
  LET sessionId == Sid(s.nextId)
      expiresTime == now + config.maxAge
      initialData == IF Falsy(userData) THEN EmptyObj ELSE userData
  IN [ret |-> initialData,
      s |-> [s EXCEPT !.nextId = @ + 1,
                      !.headers = PushHeader(@, DataCookie(sessionId, initialData,
                                                           expiresTime, userData)),
                      !.ok = @ /\ s.nextId <= MaxSids]]

\* cookieSessionStore.create (no dataCreator)
CookieCreate(s, userData) ==
  LET sessionId == Sid(s.nextId)
      expiresTime == now + config.maxAge
      initialData == IF Falsy(userData) THEN EmptyObj ELSE userData
  IN [ret |-> initialData,
      s |-> [s EXCEPT !.meta = [sessionId |-> sessionId,
                                expiresTime |-> expiresTime],
                      !.nextId = @ + 1,
                      !.headers = PushHeader(@, DataCookie(sessionId, initialData,
                                                           expiresTime, userData)),
                      !.ok = @ /\ s.nextId <= MaxSids]]

\* Mutant: a decryption failure is reported as an internal error.
CookieGetDecryptErrorInternal(s, sessionId) ==
  LET p == jar.data IN
  IF p = NoPayload THEN [ret |-> "null", s |-> s]
  ELSE IF DecryptFails(sessionId, p) THEN [ret |-> "undefined", s |-> s]
  ELSE IF p.expires # 0 /\ p.expires < now THEN [ret |-> "null", s |-> s]
  ELSE [ret |-> p.data,
        s |-> [s EXCEPT !.meta = [sessionId |-> sessionId,
                                  expiresTime |-> NewExpiresTime(p.expires)]]]

\* cookieSessionStore.get
CookieGet(s, sessionId) ==
  LET p == jar.data IN
  IF p = NoPayload THEN [ret |-> "null", s |-> s]
  ELSE IF DecryptFails(sessionId, p)
    THEN [ret |-> "null",
          s |-> [s EXCEPT !.headers = PushHeader(@, ClearDataCookie)]]
  ELSE IF p.expires # 0 /\ p.expires < now THEN [ret |-> "null", s |-> s]
  ELSE [ret |-> p.data,
        s |-> [s EXCEPT !.meta = [sessionId |-> sessionId,
                                  expiresTime |-> NewExpiresTime(p.expires)]]]

\* Mutant: set reports success when no session metadata is published.
CookieSetWithoutMeta(s, sessionData) ==
  IF s.meta = NoMeta THEN [ret |-> "true", s |-> s]
  ELSE LET expiresTime == NewExpiresTime(s.meta.expiresTime) IN
       [ret |-> "true",
        s |-> [s EXCEPT !.meta.expiresTime = expiresTime,
                        !.headers = PushHeader(@, DataCookie(s.meta.sessionId,
                                       sessionData, expiresTime, sessionData))]]

\* cookieSessionStore.set
CookieSet(s, sessionData) ==
  IF s.meta = NoMeta THEN [ret |-> "false", s |-> s]
  ELSE LET expiresTime == NewExpiresTime(s.meta.expiresTime) IN
       [ret |-> "true",
        s |-> [s EXCEPT !.meta.expiresTime = expiresTime,
                        !.headers = PushHeader(@, DataCookie(s.meta.sessionId,
                                       sessionData, expiresTime, sessionData))]]

\* cookieSessionStore.destroy
CookieDestroy(s) ==
  [ret |-> "true",
   s |-> [s EXCEPT !.headers = PushHeader(@, ClearDataCookie), !.meta = NoMeta]]

\* The store operation op of the cookie store; it defines no touch.
CookieStoreCall(s, op, arg) ==
  CASE op = "S.get" -> CookieGet(s, arg)
    [] op = "S.create" -> CookieCreate(s, arg)
    [] op = "S.set" -> CookieSet(s, arg)
    [] op = "S.destroy" -> CookieDestroy(s)
    [] OTHER -> [ret |-> "-", s |-> s]

\* One Store or Parser call of the middleware, with result res: it is
\* logged, and with the cookie store it has the store's effects and res
\* has to be the store's result.
Call(s, op, arg, res, ph) ==
  LET s1 == [s EXCEPT !.log = Append(@, [op |-> op, arg |-> arg,
                                         res |-> res, ph |-> ph])]
  IN IF config.store = "cookie" /\ op \in {"S.get", "S.create", "S.set",
                                            "S.touch", "S.destroy"}
       THEN LET r == CookieStoreCall(s1, op, arg) IN
            [r.s EXCEPT !.ok = @ /\ r.ret = res]
       ELSE s1

\* What sessionParser.set() / sessionParser.remove() return.
ParserSetResult(s) ==
  IF config.store = "cookie" THEN CookieParserSet(s) ELSE Header("set", "-", "-", 0)
ParserRemoveResult(s) ==
  IF config.store = "cookie" THEN CookieParserRemove ELSE Header("remove", "-", "-", 0)

ParserSet(s, ph) ==
  [Call(s, "P.set", "-", "set", ph)
     EXCEPT !.headers = PushHeader(@, ParserSetResult(s))]

ParserRemove(s, ph) ==
  [Call(s, "P.remove", "-", "remove", ph)
     EXCEPT !.headers = PushHeader(@, ParserRemoveResult(s))]

\* ------------------------------------------- createFarrowSession middleware

InternalError == ErrorResponse(500, "Internal Server Error")

\* Mutant: only an undefined create result counts as a failure.
CreateNewAuthStrict(s, cr) ==
  LET s1 == Call(s, "S.create", "undefined", cr, "pre") IN
  IF cr = "undefined"
    THEN [err |-> InternalError, s |-> s1]
    ELSE [err |-> NoResponse, s |-> ParserSet(CtxSet(s1, cr), "pre")]

\* createNewAuth: sessionStore.create(); a falsy result is a 500 response,
\* otherwise the created data is put in the context and sessionParser.set()
\* is queued.  cr is what sessionStore.create returns.
CreateNewAuth(s, cr) ==
  LET s1 == Call(s, "S.create", "undefined", cr, "pre") IN
  IF Falsy(cr)
    THEN [err |-> InternalError, s |-> s1]
    ELSE [err |-> NoResponse, s |-> ParserSet(CtxSet(s1, cr), "pre")]

\* Mutant: an invalid credential (get returns null) goes on without a session.
LoadSessionNoCreateOnNull(s, c, g, cr) ==
  IF Falsy(c)
    THEN LET s1 == ParserRemove(s, "pre") IN
         IF config.autoCreateOnMissing
           THEN CreateNewAuth(s1, cr)
           ELSE [err |-> NoResponse, s |-> s1]
    ELSE LET s1 == Call(s, "S.get", c, g, "pre") IN
         IF g = "undefined" THEN [err |-> InternalError, s |-> s1]
         ELSE IF g = "null" THEN [err |-> NoResponse, s |-> s1]
         ELSE [err |-> NoResponse, s |-> CtxSet(s1, g)]

\* Mutant: a missing credential always creates a session.
LoadSessionAlwaysCreate(s, c, g, cr) ==
  IF Falsy(c)
    THEN CreateNewAuth(ParserRemove(s, "pre"), cr)
    ELSE LET s1 == Call(s, "S.get", c, g, "pre") IN
         IF g = "undefined" THEN [err |-> InternalError, s |-> s1]
         ELSE IF g = "null" THEN CreateNewAuth(s1, cr)
         ELSE [err |-> NoResponse, s |-> CtxSet(s1, g)]

\* Mutant: a resolved session has its credential cookie written again.
LoadSessionRefreshesCredential(s, c, g, cr) ==
  IF Falsy(c)
    THEN LET s1 == ParserRemove(s, "pre") IN
         IF config.autoCreateOnMissing
           THEN CreateNewAuth(s1, cr)
           ELSE [err |-> NoResponse, s |-> s1]
    ELSE LET s1 == Call(s, "S.get", c, g, "pre") IN
         IF g = "undefined" THEN [err |-> InternalError, s |-> s1]
         ELSE IF g = "null" THEN CreateNewAuth(s1, cr)
         ELSE [err |-> NoResponse, s |-> ParserSet(CtxSet(s1, g), "pre")]

\* The branch on the parsed credential, up to the end of initial loading.
\* c is what sessionParser.get returns, g what sessionStore.get returns,
\* cr what sessionStore.create returns.
LoadSession(s, c, g, cr) ==
  IF Falsy(c)
    THEN LET s1 == ParserRemove(s, "pre") IN
         IF config.autoCreateOnMissing
           THEN CreateNewAuth(s1, cr)
           ELSE [err |-> NoResponse, s |-> s1]
    ELSE LET s1 == Call(s, "S.get", c, g, "pre") IN
         IF g = "undefined" THEN [err |-> InternalError, s |-> s1]
         ELSE IF g = "null" THEN CreateNewAuth(s1, cr)
         ELSE [err |-> NoResponse, s |-> CtxSet(s1, g)]

\* Mutant: the reset after the initial load is missing.
ResetFlagMissing(m) == m

\* modifiedStateCtx.set(false) once the initial data is loaded.
ResetFlag(m) == FALSE

\* Mutant: the autoSave step prefers touch whenever the store defines it.
AutoSaveOpTouchFirst(d, m, touch) ==
  IF d = "undefined" THEN "none" ELSE IF touch THEN "S.touch" ELSE "S.set"

\* Mutant: the autoSave step always writes the data back.
AutoSaveOpAlwaysSet(d, m, touch) ==
  IF d = "undefined" THEN "none" ELSE "S.set"

\* Mutant: the autoSave step saves even when the context holds no data.
AutoSaveOpIgnoresAbsence(d, m, touch) ==
  IF m THEN "S.set" ELSE IF touch THEN "S.touch" ELSE "S.set"

\* Which store operation the autoSave step performs for context data d,
\* modification flag m and a store that defines touch or not.
AutoSaveOp(d, m, touch) ==
  IF d # "undefined" /\ m THEN "S.set"
  ELSE IF d # "undefined" /\ ~m THEN (IF touch THEN "S.touch" ELSE "S.set")
  ELSE "none"

\* Mutant: every failed store result is an internal error.
SaveErrorConflated(op, res) ==
  IF res \in {"undefined", "false"} THEN InternalError ELSE NoResponse

\* The response an autoSave store result is mapped to; NoResponse lets the
\* request go on to the merge.
SaveError(op, res) ==
  IF res = "undefined" THEN InternalError
  ELSE IF res = "false"
    THEN ErrorResponse(401, IF op = "S.touch" THEN "Session Touch Failed"
                                              ELSE "SessionStore Set Failed")
  ELSE NoResponse

\* What an error return of the middleware hands back.
ErrorReturn(err, hs) == err

\* Mutant: the handler's response is handed back as it is.
FinalResponseUnmerged(hs, resp) == resp

\* What the middleware hands back on the normal path.
FinalResponse(hs, resp) == MergeResponse(hs, resp)

\* ------------------------------- operations bound by createFarrowSession

\* Mutant: regenerate asks for a new session without handing over the data.
RegenerateDropsData(s, cr) ==
  IF CtxGet(s) = "undefined" THEN [ret |-> "false", s |-> s]
  ELSE LET s1 == Call(s, "S.create", "undefined", cr, "handler") IN
       IF cr = "undefined" THEN [ret |-> "undefined", s |-> s1]
       ELSE [ret |-> "true", s |-> ParserSet(s1, "handler")]

\* Mutant: regenerate queues the credential mutation whatever create returns.
RegenerateAlwaysEmits(s, cr) ==
  IF CtxGet(s) = "undefined" THEN [ret |-> "false", s |-> s]
  ELSE LET s1 == ParserSet(Call(s, "S.create", CtxGet(s), cr, "handler"),
                           "handler") IN
       [ret |-> IF cr = "undefined" THEN "undefined" ELSE "true", s |-> s1]

\* Mutant: regenerate does not look whether there is data.
RegenerateUnguarded(s, cr) ==
  LET s1 == Call(s, "S.create", CtxGet(s), cr, "handler") IN
  IF cr = "undefined" THEN [ret |-> "undefined", s |-> s1]
  ELSE [ret |-> "true", s |-> ParserSet(s1, "handler")]

\* Mutant: regenerate puts the created data in the context, as the initial
\* loading does.
RegenerateAdoptsCreated(s, cr) ==
  IF CtxGet(s) = "undefined" THEN [ret |-> "false", s |-> s]
  ELSE LET s1 == Call(s, "S.create", CtxGet(s), cr, "handler") IN
       IF cr = "undefined" THEN [ret |-> "undefined", s |-> s1]
       ELSE [ret |-> "true", s |-> ParserSet(CtxSet(s1, cr), "handler")]

\* sessionUserDataCtx.regenerate; cr is what sessionStore.create returns.
Regenerate(s, cr) ==
  IF CtxGet(s) = "undefined" THEN [ret |-> "false", s |-> s]
  ELSE LET s1 == Call(s, "S.create", CtxGet(s), cr, "handler") IN
       IF cr = "undefined" THEN [ret |-> "undefined", s |-> s1]
       ELSE [ret |-> "true", s |-> ParserSet(s1, "handler")]

\* Mutant: a successful destroy leaves the data in the context.
DestroyKeepsData(s, dr) ==
  IF CtxGet(s) = "undefined" THEN [ret |-> "false", s |-> s]
  ELSE LET s1 == Call(s, "S.destroy", "-", dr, "handler") IN
       IF Falsy(dr) THEN [ret |-> dr, s |-> s1]
       ELSE [ret |-> "true", s |-> ParserRemove(s1, "handler")]

\* Mutant: destroy clears the context whatever the store answers.
DestroyClearsAnyway(s, dr) ==
  IF CtxGet(s) = "undefined" THEN [ret |-> "false", s |-> s]
  ELSE LET s1 == ParserRemove(
                   CtxSet(Call(s, "S.destroy", "-", dr, "handler"), "undefined"),
                   "handler") IN
       [ret |-> IF Falsy(dr) THEN dr ELSE "true", s |-> s1]

\* Mutant: a successful destroy clears the data and leaves the credential
\* cookie alone.
DestroySkipsRemove(s, dr) ==
  IF CtxGet(s) = "undefined" THEN [ret |-> "false", s |-> s]
  ELSE LET s1 == Call(s, "S.destroy", "-", dr, "handler") IN
       IF Falsy(dr) THEN [ret |-> dr, s |-> s1]
       ELSE [ret |-> "true", s |-> CtxSet(s1, "undefined")]

\* sessionUserDataCtx.destroy; dr is what sessionStore.destroy returns.
Destroy(s, dr) ==
  IF CtxGet(s) = "undefined" THEN [ret |-> "false", s |-> s]
  ELSE LET s1 == Call(s, "S.destroy", "-", dr, "handler") IN
       IF Falsy(dr) THEN [ret |-> dr, s |-> s1]
       ELSE [ret |-> "true",
             s |-> ParserRemove(CtxSet(s1, "undefined"), "handler")]

\* Mutant: saveToStore always writes the data, whether modified or not.
SaveToStoreAlwaysSet(s, sr) ==
  IF CtxGet(s) = "undefined" THEN [ret |-> "false", s |-> s]
  ELSE [ret |-> OrFalse(sr), s |-> Call(s, "S.set", CtxGet(s), sr, "handler")]

\* Mutant: a successful save of modified data clears the modification flag.
SaveToStoreClearsFlag(s, sr) ==
  IF CtxGet(s) = "undefined" THEN [ret |-> "false", s |-> s]
  ELSE IF CtxIsModified(s)
    THEN [ret |-> OrFalse(sr),
          s |-> [Call(s, "S.set", CtxGet(s), sr, "handler")
                   EXCEPT !.modified = (sr # "true")]]
  ELSE IF config.hasTouch
    THEN [ret |-> OrFalse(sr), s |-> Call(s, "S.touch", "-", sr, "handler")]
  ELSE [ret |-> OrFalse(sr), s |-> Call(s, "S.set", CtxGet(s), sr, "handler")]

\* sessionUserDataCtx.saveToStore; sr is what the store call returns.
SaveToStore(s, sr) ==
  IF CtxGet(s) = "undefined" THEN [ret |-> "false", s |-> s]
  ELSE IF CtxIsModified(s)
    THEN [ret |-> OrFalse(sr), s |-> Call(s, "S.set", CtxGet(s), sr, "handler")]
  ELSE IF config.hasTouch
    THEN [ret |-> OrFalse(sr), s |-> Call(s, "S.touch", "-", sr, "handler")]
  ELSE [ret |-> OrFalse(sr), s |-> Call(s, "S.set", CtxGet(s), sr, "handler")]

\* ----------------------------------------------------------------- actions

\* The context values of a container in which nothing has run yet; d is the
\* default of createSessionCtx.
IdleContainer(d) ==
  [pc |-> "idle", cred |-> "none", data |-> d, modified |-> FALSE,
   sessionHeaders |-> <<>>, log |-> <<>>, ops |-> <<>>, nextCalls |-> 0,
   response |-> NoResponse, sessionMeta |-> NoMeta]

Fresh(d) ==
  /\ pc = "idle"
  /\ cred = "none"
  /\ data = d
  /\ modified = FALSE
  /\ sessionHeaders = <<>>
  /\ log = <<>>
  /\ ops = <<>>
  /\ nextCalls = 0
  /\ response = NoResponse
  /\ sessionMeta = NoMeta
  /\ nextId = 1
  /\ now = 0
  /\ jar = [sid |-> NoCookie, data |-> NoPayload]
  /\ replayed = FALSE
  /\ other = IdleContainer(config.defaultData)
  /\ self = 1

\* The configurations with a store and a parser of the application.
MockConfigs ==
  [autoSave : BOOLEAN, autoCreateOnMissing : BOOLEAN, hasTouch : BOOLEAN,
   defaultData : DefaultValues, store : {"mock"}, rolling : {FALSE},
   renew : {FALSE}, secret : {"-"}, maxAge : {MaxAge},
   renewBefore : {RenewBefore}]

Init ==
  /\ config \in MockConfigs
  /\ targetIsModified = FALSE
  /\ Fresh(config.defaultData)

\* The middleware from sessionParser.get up to the end of initial loading;
\* an error response ends the request without the handler.
Resolve(c, g, cr) ==
  /\ pc = "idle"
  /\ LET r == LoadSession(Cur, c, g, cr) IN
       /\ Install(r.s)
       /\ cred' = c
       /\ IF r.err # NoResponse
            THEN pc' = "done" /\ response' = ErrorReturn(r.err, r.s.headers)
            ELSE pc' = "loaded" /\ UNCHANGED response
  /\ UNCHANGED <<config, nextCalls, targetIsModified, ops, clientVars>>

\* Reset of the modification flag, then next(): the handler starts.
EnterHandler ==
  /\ pc = "loaded"
  /\ modified' = ResetFlag(modified)
  /\ nextCalls' = nextCalls + 1
  /\ pc' = "handler"
  /\ UNCHANGED <<config, cred, data, targetIsModified, sessionHeaders,
                 log, ops, response, cookieVars>>

Op(name, arg, ret) == [op |-> name, arg |-> arg, ret |-> ret]

InHandler == pc = "handler" /\ Len(ops) < MaxSteps

Bool(b) == IF b THEN "true" ELSE "false"

\* The handler calls sessionUserDataCtx.set(v).
HSet(v) ==
  /\ InHandler
  /\ Install(CtxSet(Cur, v))
  /\ ops' = Append(ops, Op("set", v, "undefined"))
  /\ UNCHANGED <<config, nextCalls, pc, cred, targetIsModified, response, clientVars>>

\* Mutant: reading the data marks it modified.
HGetMarksModified ==
  /\ InHandler
  /\ ops' = Append(ops, Op("get", "-", CtxGet(Cur)))
  /\ modified' = SetFlag(modified)
  /\ UNCHANGED <<config, nextCalls, pc, cred, data, targetIsModified,
                 sessionHeaders, log, response, cookieVars>>

\* The handler calls sessionUserDataCtx.get().
HGet ==
  /\ InHandler
  /\ ops' = Append(ops, Op("get", "-", CtxGet(Cur)))
  /\ UNCHANGED <<config, nextCalls, pc, cred, data, modified, targetIsModified,
                 sessionHeaders, log, response, cookieVars>>

\* The handler reads sessionUserDataCtx.isModified.
HReadIsModified ==
  /\ InHandler
  /\ ops' = Append(ops, Op("isModified", "-", Bool(CtxIsModified(Cur))))
  /\ UNCHANGED <<config, nextCalls, pc, cred, data, modified, targetIsModified,
                 sessionHeaders, log, response, cookieVars>>

\* The handler assigns sessionUserDataCtx.isModified = b: the proxy has no
\* set trap, so the assignment lands on the target object's own field.
HAssignIsModified(b) ==
  /\ InHandler
  /\ targetIsModified' = b
  /\ ops' = Append(ops, Op("assign", Bool(b), "undefined"))
  /\ UNCHANGED <<config, nextCalls, pc, cred, data, modified, sessionHeaders,
                 log, response, cookieVars>>

HRegenerate(cr) ==
  /\ InHandler
  /\ LET r == Regenerate(Cur, cr) IN
       /\ Install(r.s)
       /\ ops' = Append(ops, Op("regenerate", "-", r.ret))
  /\ UNCHANGED <<config, nextCalls, pc, cred, targetIsModified, response, clientVars>>

HDestroy(dr) ==
  /\ InHandler
  /\ LET r == Destroy(Cur, dr) IN
       /\ Install(r.s)
       /\ ops' = Append(ops, Op("destroy", "-", r.ret))
  /\ UNCHANGED <<config, nextCalls, pc, cred, targetIsModified, response, clientVars>>

HSaveToStore(sr) ==
  /\ InHandler
  /\ LET r == SaveToStore(Cur, sr) IN
       /\ Install(r.s)
       /\ ops' = Append(ops, Op("saveToStore", "-", r.ret))
  /\ UNCHANGED <<config, nextCalls, pc, cred, targetIsModified, response, clientVars>>

\* The handler returns its response; the autoSave step, then the merge.
\* sr is what the store call of the autoSave step returns.
Finish(sr) ==
  /\ pc = "handler"
  /\ LET d == CtxGet(Cur)
         op == IF config.autoSave
                 THEN AutoSaveOp(d, CtxIsModified(Cur), config.hasTouch)
                 ELSE "none"
         s1 == IF op = "none" THEN Cur
               ELSE Call(Cur, op, IF op = "S.set" THEN d ELSE "-", sr, "post")
         err == IF op = "none" THEN NoResponse ELSE SaveError(op, sr)
     IN
       /\ Install(s1)
       /\ response' = IF err # NoResponse
                        THEN ErrorReturn(err, s1.headers)
                        ELSE FinalResponse(s1.headers, HandlerResponse)
  /\ pc' = "done"
  /\ UNCHANGED <<config, nextCalls, cred, targetIsModified, ops, clientVars>>

\* The next request runs in a fresh container: every context is back at its
\* default; the proxy object itself is shared by all requests.
\* In this request destroy() returned true for the session that the
\* cookies of the request resolved to.
DestroyedNow ==
  /\ config.store = "cookie"
  /\ Len(log) >= 1
  /\ log[1].op = "S.get"
  /\ log[1].res \notin {"null", "undefined"}
  /\ \E i \in 1..Len(ops) :
        /\ ops[i] = Op("destroy", "-", "true")
        /\ \A k \in 1..(i - 1) : ops[k].op # "regenerate"

\* j: the cookies the client presents in the next request.
NextRequest(j) ==
  /\ pc = "done"
  /\ pc' = "idle"
  /\ cred' = "none"
  /\ data' = config.defaultData
  /\ modified' = FALSE
  /\ sessionHeaders' = <<>>
  /\ log' = <<>>
  /\ ops' = <<>>
  /\ nextCalls' = 0
  /\ response' = NoResponse
  /\ sessionMeta' = NoMeta
  /\ jar' = j
  /\ replayed' = (j = jar /\ (replayed \/ DestroyedNow))
  /\ UNCHANGED <<config, targetIsModified, nextId, now, other, self>>

\* The next request of a client that kept the cookies it had sent.
NewRequest == NextRequest(jar)

Next ==
  \/ \E c \in ParserGetResults, g \in StoreGetResults, cr \in StoreCreateResults :
       Resolve(c, g, cr)
  \/ EnterHandler
  \/ \E v \in SetValues : HSet(v)
  \/ HGet
  \/ HReadIsModified
  \/ \E b \in BOOLEAN : HAssignIsModified(b)
  \/ \E cr \in StoreCreateResults : HRegenerate(cr)
  \/ \E dr \in Tri : HDestroy(dr)
  \/ \E sr \in Tri : HSaveToStore(sr)
  \/ \E sr \in Tri : Finish(sr)
  \/ NewRequest

Spec == Init /\ [][Next]_vars

\* The steps of one request, for the question whether it ends: the
\* middleware's own steps and a handler that sets data or destroys the
\* session before it returns.
NextLive ==
  \/ \E c \in ParserGetResults, g \in StoreGetResults, cr \in StoreCreateResults :
       Resolve(c, g, cr)
  \/ EnterHandler
  \/ \E v \in SetValues : HSet(v)
  \/ \E dr \in Tri : HDestroy(dr)
  \/ \E sr \in Tri : Finish(sr)
  \/ NewRequest

\* Every Parser and Store call returns, so the middleware goes on from each
\* await; the handler returns.
SpecLive ==
  /\ Init
  /\ [][NextLive]_vars
  /\ WF_vars(\E c \in ParserGetResults, g \in StoreGetResults,
                 cr \in StoreCreateResults : Resolve(c, g, cr))
  /\ WF_vars(EnterHandler)
  /\ WF_vars(\E sr \in Tri : Finish(sr))

\* ------------------------------------ the middleware over the cookie store

\* The configurations with cookieSessionStore and cookieSessionParser: the
\* store defines no touch, and rejects rolling together with renew.
CookieConfigs ==
  {c \in [autoSave : BOOLEAN, autoCreateOnMissing : BOOLEAN, hasTouch : {FALSE},
          defaultData : {"undefined"}, store : {"cookie"}, rolling : BOOLEAN,
          renew : BOOLEAN, secret : {"k"}, maxAge : {MaxAge},
          renewBefore : {RenewBefore}] : ~(c.rolling /\ c.renew)}

InitCookie ==
  /\ config \in CookieConfigs
  /\ targetIsModified = FALSE
  /\ Fresh(config.defaultData)

\* Initial loading: the parser reads the sess:k cookie of the request, the
\* store the sess:data cookie.
CookieResolve ==
  LET c == CookieParserGet IN
  Resolve(c, CookieGet(Cur, c).ret, CookieCreate(Cur, "undefined").ret)

CookieRegenerate == HRegenerate(CookieCreate(Cur, CtxGet(Cur)).ret)

CookieDestroyCall == HDestroy(CookieDestroy(Cur).ret)

CookieSaveToStore == HSaveToStore(CookieSet(Cur, CtxGet(Cur)).ret)

CookieFinish == Finish(CookieSet(Cur, CtxGet(Cur)).ret)

\* The cookies a client holds after it applied the mutations hs in order.
RECURSIVE ApplyMutations(_, _)
ApplyMutations(j, hs) ==
  IF hs = <<>> THEN j
  ELSE LET h == Head(hs)
           j1 == CASE h.kind = "set" -> [j EXCEPT !.sid = h.sid]
                   [] h.kind = "remove" -> [j EXCEPT !.sid = NoCookie]
                   [] h.kind = "data" -> [j EXCEPT !.data = Payload(h)]
                   [] h.kind = "cleardata" -> [j EXCEPT !.data = NoPayload]
                   [] OTHER -> j
       IN ApplyMutations(j1, Tail(hs))

\* The next request of a client that applied the Set-Cookie headers of the
\* response.
ClientApplies == NextRequest(ApplyMutations(jar, response.headers))

\* Cookies a client can make of the ones it holds after the response: the
\* data cookie altered, so that the credential no longer decrypts it.
TamperedJars ==
  LET applied == ApplyMutations(jar, response.headers) IN
  {j \in {[applied EXCEPT !.data = GarbledPayload]} :
     /\ applied.data # NoPayload
     /\ j.sid # NoCookie
     /\ DecryptFails(Decode(j.sid), j.data)}

\* The next request of a client that presents such cookies.
ClientTampers(j) == NextRequest(j)

\* Time passes between two requests, or between the initial loading and the
\* session operations of the handler.
Tick ==
  /\ pc \in {"idle", "loaded"}
  /\ now < MaxTime
  /\ now' = now + 1
  /\ UNCHANGED <<config, pc, cred, data, modified, targetIsModified,
                 sessionHeaders, log, ops, nextCalls, response, sessionMeta,
                 nextId, jar, replayed, other, self>>

\* The handler's operations that reach the store or change what is stored.
NextCookie ==
  \/ CookieResolve
  \/ EnterHandler
  \/ \E v \in Data : HSet(v)
  \/ CookieRegenerate
  \/ CookieDestroyCall
  \/ CookieSaveToStore
  \/ CookieFinish
  \/ NewRequest
  \/ ClientApplies
  \/ \E j \in TamperedJars : ClientTampers(j)
  \/ Tick

SpecCookie == InitCookie /\ [][NextCookie]_vars

\* ------------------------------------------------ two concurrent requests

\* The container of the running request.
Container ==
  [pc |-> pc, cred |-> cred, data |-> data, modified |-> modified,
   sessionHeaders |-> sessionHeaders, log |-> log, ops |-> ops,
   nextCalls |-> nextCalls, response |-> response, sessionMeta |-> sessionMeta]

\* Mutant: the modification flag is one variable of the module instead of a
\* context value, so the resumed request finds the flag of the other one.
ResumedFlagShared(c) == modified

\* The modification flag the resumed request finds: the one of its container.
ResumedFlag(c) == c.modified

\* The running request is suspended at an await and the other one resumes:
\* farrow-pipeline runs each continuation in the container of its request.
Switch ==
  /\ other' = Container
  /\ self' = 3 - self
  /\ pc' = other.pc
  /\ cred' = other.cred
  /\ data' = other.data
  /\ modified' = ResumedFlag(other)
  /\ sessionHeaders' = other.sessionHeaders
  /\ log' = other.log
  /\ ops' = other.ops
  /\ nextCalls' = other.nextCalls
  /\ response' = other.response
  /\ sessionMeta' = other.sessionMeta
  /\ UNCHANGED <<config, targetIsModified, nextId, now, jar, replayed>>

PairConfigs ==
  {c \in CookieConfigs :
     c.autoSave /\ c.autoCreateOnMissing /\ ~c.rolling /\ ~c.renew}

\* The value the handler of request r stores.
HandlerValue(r) == IF r = 1 THEN "d1" ELSE "d0"

InitPair ==
  /\ config \in PairConfigs
  /\ targetIsModified = FALSE
  /\ Fresh(config.defaultData)

\* Two requests of one client against the cookie store, interleaved at the
\* awaits of the middleware and of the handler.
NextPair ==
  \/ CookieResolve
  \/ EnterHandler
  \/ HSet(HandlerValue(self))
  \/ HGet
  \/ HReadIsModified
  \/ CookieFinish
  \/ ClientApplies
  \/ Switch

SpecPair == InitPair /\ [][NextPair]_vars

\* --------------------------------- overlapping requests and the expiry time

OverlapConfigs ==
  {[c EXCEPT !.maxAge = LongMaxAge, !.renewBefore = EarlyRenewBefore] :
     c \in {x \in CookieConfigs : x.autoSave /\ x.autoCreateOnMissing}}

InitOverlap ==
  /\ config \in OverlapConfigs
  /\ targetIsModified = FALSE
  /\ Fresh(config.defaultData)

\* Two requests of one client whose handlers only read; the client sends a
\* request with the cookies it holds at that moment and applies a response
\* when it arrives, while time passes.
NextOverlap ==
  \/ CookieResolve
  \/ EnterHandler
  \/ CookieFinish
  \/ ClientApplies
  \/ Switch
  \/ Tick

SpecOverlap == InitOverlap /\ [][NextOverlap]_vars

\* ------------------------------------------- the cookie parser on its own

\* The session metadata a store can have published by now.
Metas ==
  {[sessionId |-> x, expiresTime |-> e] :
     x \in AllSids, e \in now..(now + MaxAge)}

\* A middleware that uses cookieSessionParser without the session middleware
\* starts with no metadata published.
InitParser ==
  /\ config \in {c \in CookieConfigs :
                    c.autoSave /\ c.autoCreateOnMissing /\ ~c.rolling /\ ~c.renew}
  /\ targetIsModified = FALSE
  /\ Fresh(config.defaultData)

\* The middleware is entered.
ParserEnter ==
  /\ pc = "idle"
  /\ pc' = "handler"
  /\ UNCHANGED <<config, cred, data, modified, targetIsModified, sessionHeaders,
                 log, ops, nextCalls, response, cookieVars>>

\* sessionMetaDataCtx.set(sessionMeta)
PublishMeta(m) ==
  /\ pc = "handler"
  /\ sessionMeta' = m
  /\ UNCHANGED <<config, pc, cred, data, modified, targetIsModified,
                 sessionHeaders, log, ops, nextCalls, response, nextId,
                 clientVars>>

\* Mutant: parser.set writes a credential cookie whatever the metadata.
ParserSetCallAlways ==
  /\ InHandler
  /\ sessionHeaders' = PushHeader(sessionHeaders,
        Header("set", Encode(sessionMeta.sessionId), "-", sessionMeta.expiresTime))
  /\ ops' = Append(ops, Op("parser.set", "-", "response"))
  /\ UNCHANGED <<config, pc, cred, data, modified, targetIsModified, log,
                 nextCalls, response, cookieVars>>

\* const response = await parser.set()
ParserSetCall ==
  /\ InHandler
  /\ sessionHeaders' = PushHeader(sessionHeaders, CookieParserSet(Cur))
  /\ ops' = Append(ops, Op("parser.set", "-", "response"))
  /\ UNCHANGED <<config, pc, cred, data, modified, targetIsModified, log,
                 nextCalls, response, cookieVars>>

\* const response = await parser.remove()
ParserRemoveCall ==
  /\ InHandler
  /\ sessionHeaders' = PushHeader(sessionHeaders, CookieParserRemove)
  /\ ops' = Append(ops, Op("parser.remove", "-", "response"))
  /\ UNCHANGED <<config, pc, cred, data, modified, targetIsModified, log,
                 nextCalls, response, cookieVars>>

NextParser ==
  \/ ParserEnter
  \/ \E m \in Metas \cup {NoMeta} : PublishMeta(m)
  \/ ParserSetCall
  \/ ParserRemoveCall
  \/ Tick

SpecParser == InitParser /\ [][NextParser]_vars

\* ------------------------------------------ construction of the cookie store

\* The options cookieSessionStore can be called with.
CookieOptions ==
  [autoSave : BOOLEAN, autoCreateOnMissing : BOOLEAN, hasTouch : {FALSE},
   defaultData : {"undefined"}, store : {"cookie"}, rolling : BOOLEAN,
   renew : BOOLEAN, secret : {"", "undefined", "k"}, maxAge : {MaxAge},
   renewBefore : {RenewBefore}]

\* Mutant: only the secret is validated.
ConstructionErrorSecretOnly(o) ==
  IF o.secret \in {"", "undefined"}
    THEN "throws: Secret is required for cookieSessionStore"
  ELSE "none"

\* The option validation of cookieSessionStore.
ConstructionError(o) ==
  IF o.secret \in {"", "undefined"}
    THEN "throws: Secret is required for cookieSessionStore"
  ELSE IF o.rolling /\ o.renew
    THEN "throws: Cannot use both rolling and renew modes at the same time"
  ELSE "none"

InitConstruct ==
  /\ config \in CookieOptions
  /\ targetIsModified = FALSE
  /\ pc = "unbuilt"
  /\ cred = "none"
  /\ data = config.defaultData
  /\ modified = FALSE
  /\ sessionHeaders = <<>>
  /\ log = <<>>
  /\ ops = <<>>
  /\ nextCalls = 0
  /\ response = NoResponse
  /\ sessionMeta = NoMeta
  /\ nextId = 1
  /\ now = 0
  /\ jar = [sid |-> NoCookie, data |-> NoPayload]
  /\ replayed = FALSE
  /\ other = IdleContainer(config.defaultData)
  /\ self = 1

\* cookieSessionStore(options): it throws, or returns the store that the
\* middleware then serves requests with.
CookieSessionStore ==
  /\ pc = "unbuilt"
  /\ pc' = IF ConstructionError(config) = "none" THEN "idle" ELSE "threw"
  /\ ops' = IF ConstructionError(config) = "none" THEN ops
            ELSE <<Op("cookieSessionStore", "-", ConstructionError(config))>>
  /\ UNCHANGED <<config, nextCalls, cred, data, modified, targetIsModified,
                 sessionHeaders, log, response, cookieVars>>

NextConstruct ==
  \/ CookieSessionStore
  \/ NextCookie

SpecConstruct == InitConstruct /\ [][NextConstruct]_vars

\* -------------------------------------- before createFarrowSession is called

LifecycleOps == {"saveToStore", "regenerate", "destroy"}

NotImplemented == "throws: not implemented yet"

\* Mutant: the placeholder operations report failure instead of throwing.
StandaloneResultSilent(name) == "false"

\* saveToStore / regenerate / destroy of a context that createSessionCtx has
\* just built: the placeholder throws.
StandaloneResult(name) == NotImplemented

\* Code outside any middleware calls one of the three operations of the
\* context before createFarrowSession has been given the context.
StandaloneCall(name) ==
  /\ pc = "unbound"
  /\ Len(ops) < MaxSteps
  /\ ops' = Append(ops, Op(name, "-", StandaloneResult(name)))
  /\ UNCHANGED <<config, nextCalls, pc, cred, data, modified, targetIsModified,
                 sessionHeaders, log, response, cookieVars>>

\* createFarrowSession(config): the three operations of config's context are
\* replaced by the ones that use config's store and parser; requests can be
\* served from now on (ops restarts: it lists one scope's operations).
CreateFarrowSession ==
  /\ pc = "unbound"
  /\ pc' = "idle"
  /\ ops' = <<>>
  /\ UNCHANGED <<config, nextCalls, cred, data, modified, targetIsModified,
                 sessionHeaders, log, response, cookieVars>>

InitUnbound ==
  /\ config \in MockConfigs
  /\ targetIsModified = FALSE
  /\ pc = "unbound"
  /\ cred = "none"
  /\ data = config.defaultData
  /\ modified = FALSE
  /\ sessionHeaders = <<>>
  /\ log = <<>>
  /\ ops = <<>>
  /\ nextCalls = 0
  /\ response = NoResponse
  /\ sessionMeta = NoMeta
  /\ nextId = 1
  /\ now = 0
  /\ jar = [sid |-> NoCookie, data |-> NoPayload]
  /\ replayed = FALSE
  /\ other = IdleContainer(config.defaultData)
  /\ self = 1

NextBind ==
  \/ \E name \in LifecycleOps : StandaloneCall(name)
  \/ CreateFarrowSession
  \/ Next

SpecBind == InitUnbound /\ [][NextBind]_vars

\* ------------------------------------------------------------- properties

IsPre(e) == e.ph = "pre"
IsPost(e) == e.ph = "post"
PreCalls == SelectSeq(log, IsPre)
PostCalls == SelectSeq(log, IsPost)
StoreOps == {"S.get", "S.create", "S.set", "S.touch", "S.destroy"}

\* The handler has been entered in this request.
HandlerStarted == pc \in {"handler", "done"} /\ nextCalls = 1

\* The handler has not changed the context data so far.
NoSetSoFar == \A i \in 1..Len(ops) : ops[i].op \notin {"set", "destroy"}

\* The request presented a credential that sessionStore.get resolved to data.
ResolvedByGet ==
  /\ cred \in Creds
  /\ Len(log) >= 1
  /\ log[1].op = "S.get"
  /\ log[1].res \in Data

\* C1: when Parser.get yields a credential and Store.get returns data, the
\* handler finds exactly that data in the context and isModified false at
\* its entry, and every get / isModified read it makes before it changes the
\* data itself returns that data / false.
C1_ResolvedDataVisibleUnmodified ==
  (HandlerStarted /\ ResolvedByGet /\ NoSetSoFar) =>
     /\ CtxGet(Cur) = log[1].res
     /\ ~CtxIsModified(Cur)
     /\ \A i \in 1..Len(ops) :
          /\ ops[i].op = "get" => ops[i].ret = log[1].res
          /\ ops[i].op = "isModified" => ops[i].ret = "false"

C1_Witness ==
  /\ pc = "handler"
  /\ ResolvedByGet
  /\ Len(ops) = 2
  /\ ops[1].op = "isModified"
  /\ ops[2].op = "get"
  /\ ops[2].ret = "d1"

\* The handler called set at least once.
HandlerCalledSet == \E i \in 1..Len(ops) : ops[i].op = "set"

\* C2: with autoSave on, once a handler that called set has returned with
\* data present in the context, the middleware has made exactly one store
\* call after the handler: Store.set with the data then current, and no
\* Store.touch.
C2_AutoSaveModifiedCallsSetOnce ==
  (pc = "done" /\ nextCalls = 1 /\ config.autoSave /\ HandlerCalledSet
     /\ CtxGet(Cur) # "undefined") =>
     /\ Len(PostCalls) = 1
     /\ PostCalls[1].op = "S.set"
     /\ PostCalls[1].arg = CtxGet(Cur)

C2_Witness ==
  /\ pc = "done"
  /\ config.autoSave
  /\ config.hasTouch
  /\ ResolvedByGet
  /\ log[1].res = "d1"
  /\ Len(ops) = 1
  /\ ops[1] = Op("set", "d0", "undefined")
  /\ Len(PostCalls) = 1
  /\ PostCalls[1].arg = "d0"

\* C3: with autoSave on, once a handler that made no set call has returned
\* with data present, the middleware has made exactly one store call after
\* the handler: Store.touch if the store defines touch, otherwise Store.set
\* with the unchanged data.
C3_AutoSaveUnmodifiedTouches ==
  (pc = "done" /\ nextCalls = 1 /\ config.autoSave /\ ~HandlerCalledSet
     /\ CtxGet(Cur) # "undefined") =>
     /\ Len(PostCalls) = 1
     /\ IF config.hasTouch
          THEN PostCalls[1].op = "S.touch"
          ELSE PostCalls[1].op = "S.set" /\ PostCalls[1].arg = CtxGet(Cur)

C3_Witness ==
  /\ pc = "done"
  /\ config.autoSave
  /\ config.hasTouch
  /\ ResolvedByGet
  /\ ~HandlerCalledSet
  /\ Len(PostCalls) = 1
  /\ PostCalls[1].op = "S.touch"

\* C4: the result of the store call of the autoSave step decides the
\* response: undefined gives 500, false gives 401, and only true lets the
\* handler's response through.
C4_AutoSaveErrorMapping ==
  (pc = "done" /\ Len(PostCalls) >= 1) =>
     /\ PostCalls[1].res = "undefined" => response.status = 500
     /\ PostCalls[1].res = "false" => response.status = 401
     /\ PostCalls[1].res = "true" =>
          response.status = 200 /\ response.body = "handler"

C4_Witness ==
  /\ pc = "done"
  /\ Len(PostCalls) = 1
  /\ PostCalls[1].op = "S.touch"
  /\ PostCalls[1].res = "false"
  /\ response.status = 401

\* The loading step failed: Store.get returned undefined, or the
\* Store.create called by createNewAuth returned a falsy value.
LoadFailed ==
  \E i \in 1..Len(log) :
    /\ log[i].ph = "pre"
    /\ \/ log[i].op = "S.get" /\ log[i].res = "undefined"
       \/ log[i].op = "S.create" /\ Falsy(log[i].res)

\* C5: when Store.get returns undefined or the Store.create of
\* createNewAuth returns a falsy value, the request ends with a 500
\* response, the handler is never invoked and no Store.set or Store.touch
\* is called in the request.
C5_LoadFailureIs500WithoutHandler ==
  LoadFailed =>
     /\ pc = "done"
     /\ response.status = 500
     /\ nextCalls = 0
     /\ ops = <<>>
     /\ \A i \in 1..Len(log) : log[i].op \notin {"S.set", "S.touch"}

C5_Witness ==
  /\ pc = "done"
  /\ cred \in Creds
  /\ Len(log) = 2
  /\ log[1].op = "S.get" /\ log[1].res = "null"
  /\ log[2].op = "S.create" /\ log[2].res = "d0"
  /\ response.status = 500

\* The request is one in which createNewAuth is due: no credential with
\* autoCreateOnMissing, or a credential that Store.get answers with null.
NeedsCreate ==
  /\ pc # "idle"
  /\ \/ cred = "null" /\ config.autoCreateOnMissing
     \/ cred \in Creds /\ log[1].op = "S.get" /\ log[1].res = "null"

\* C6: in such a request the middleware calls Store.create exactly once,
\* without data, before the handler; when the create succeeds the next call
\* is Parser.set, whose mutation is queued after the remove of a missing
\* credential, the context holds the created data, and the handler finds
\* the created data with isModified false until it changes the data itself.
C6_CreateOnMissingOrInvalid ==
  NeedsCreate =>
     /\ Cardinality({i \in 1..Len(log) :
                       log[i].op = "S.create" /\ log[i].ph = "pre"}) = 1
     /\ Len(PreCalls) >= 2
     /\ PreCalls[2].op = "S.create"
     /\ PreCalls[2].arg = "undefined"
     /\ ~Falsy(PreCalls[2].res) =>
          LET n == IF cred = "null" THEN 2 ELSE 1 IN
          /\ Len(PreCalls) = 3
          /\ PreCalls[3].op = "P.set"
          /\ Len(sessionHeaders) >= n
          /\ sessionHeaders[n].kind = "set"
          /\ cred = "null" => sessionHeaders[1].kind = "remove"
          /\ pc = "done" => nextCalls = 1
          /\ pc = "loaded" => CtxGet(Cur) = PreCalls[2].res
          /\ (HandlerStarted /\ NoSetSoFar) =>
               /\ CtxGet(Cur) = PreCalls[2].res
               /\ ~CtxIsModified(Cur)
               /\ \A i \in 1..Len(ops) :
                    /\ ops[i].op = "get" => ops[i].ret = PreCalls[2].res
                    /\ ops[i].op = "isModified" => ops[i].ret = "false"

C6_Witness ==
  /\ pc = "handler"
  /\ cred = "null"
  /\ config.autoCreateOnMissing
  /\ config.defaultData = "undefined"
  /\ Kinds(sessionHeaders) = <<"remove", "set">>
  /\ Len(ops) = 2
  /\ ops[1] = Op("get", "-", "d1")
  /\ ops[2] = Op("isModified", "-", "false")

\* The request has no credential and autoCreateOnMissing is off.
NoCredNoCreate ==
  pc # "idle" /\ cred = "null" /\ ~config.autoCreateOnMissing

\* C7 as stated: in such a request the handler finds the session absent and
\* the middleware itself makes no Store call at all; Parser.remove is the
\* only call it makes.
C7_Original ==
  NoCredNoCreate =>
     /\ (HandlerStarted /\ NoSetSoFar) => CtxGet(Cur) = "undefined"
     /\ \A i \in 1..Len(log) :
          log[i].ph \in {"pre", "post"} => log[i].op = "P.remove"

\* C7 amended: in such a request the middleware makes no Store call before
\* the handler and emits only Parser.remove; the handler finds the context's
\* default value (absent for a context created with an absent default) with
\* isModified false until it changes the data itself; after the handler the
\* middleware makes a Store call, one Store.set or Store.touch, only if
\* autoSave is on and the context data is then present.
C7_NoCredentialNoCreate ==
  NoCredNoCreate =>
     /\ Len(PreCalls) = 1
     /\ PreCalls[1].op = "P.remove"
     /\ (HandlerStarted /\ NoSetSoFar) =>
          /\ CtxGet(Cur) = config.defaultData
          /\ ~CtxIsModified(Cur)
          /\ \A i \in 1..Len(ops) :
               ops[i].op = "get" => ops[i].ret = config.defaultData
     /\ PostCalls # <<>> =>
          /\ config.autoSave
          /\ CtxGet(Cur) # "undefined"
          /\ Len(PostCalls) = 1
          /\ PostCalls[1].op \in {"S.set", "S.touch"}

C7_Witness ==
  /\ pc = "done"
  /\ NoCredNoCreate
  /\ config.autoSave
  /\ config.defaultData = "undefined"
  /\ ops = <<Op("get", "-", "undefined")>>
  /\ Len(log) = 1
  /\ Kinds(response.headers) = <<"remove">>

\* C8: an error response of the middleware still carries every response
\* mutation queued earlier in the request.
C8_ErrorResponseKeepsMutations ==
  (pc = "done" /\ response.status \in {401, 500}) =>
     response.headers = sessionHeaders

\* SessionContext.set was invoked in the first n operations of the handler:
\* by the handler itself, or by a destroy that succeeded and cleared the data.
SetInvokedWithin(n) ==
  \E i \in 1..n :
    \/ ops[i].op = "set"
    \/ ops[i].op = "destroy" /\ ops[i].ret = "true"

\* C9: from handler entry on, isModified is true exactly when
\* SessionContext.set has been invoked since; get, reading isModified and
\* assigning isModified leave it as it is, and every read of isModified
\* returns that value.
C9_ModifiedIffSetInvoked ==
  HandlerStarted =>
     /\ CtxIsModified(Cur) <=> SetInvokedWithin(Len(ops))
     /\ \A i \in 1..Len(ops) :
          ops[i].op = "isModified" =>
            ops[i].ret = Bool(SetInvokedWithin(i - 1))

C9_Witness ==
  /\ pc = "handler"
  /\ Len(ops) = 2
  /\ ops[1] = Op("assign", "true", "undefined")
  /\ ops[2] = Op("isModified", "-", "false")
  /\ targetIsModified

\* C10: while the handler runs, and up to the end of the request, a true
\* isModified stays true whatever operation follows.
C10_ModifiedMonotonic ==
  [][(pc = "handler" /\ CtxIsModified(Cur)) => CtxIsModified(Cur)']_vars

C10_Witness ==
  /\ pc = "handler"
  /\ Len(ops) = 2
  /\ ops[1].op = "set"
  /\ ops[2] = Op("saveToStore", "-", "true")
  /\ CtxIsModified(Cur)

\* C11: before createFarrowSession has been given the context, saveToStore,
\* regenerate and destroy throw 'not implemented yet' and no Store or Parser
\* call is made; afterwards none of them throws that error, and one that
\* returns true has made its call to the configured store.
C11_UnboundOperationsThrow ==
  /\ pc = "unbound" =>
       /\ log = <<>>
       /\ sessionHeaders = <<>>
       /\ \A i \in 1..Len(ops) : ops[i].ret = NotImplemented
  /\ pc # "unbound" =>
       \A i \in 1..Len(ops) :
         /\ ops[i].ret # NotImplemented
         /\ (ops[i].op \in LifecycleOps /\ ops[i].ret = "true") =>
              \E j \in 1..Len(log) :
                log[j].ph = "handler" /\ log[j].op \in StoreOps

C11_Witness ==
  /\ pc = "unbound"
  /\ Len(ops) = 2
  /\ ops[1] = Op("saveToStore", "-", NotImplemented)
  /\ ops[2] = Op("destroy", "-", NotImplemented)

\* The step is the handler's call of operation name.
Did(name) ==
  /\ pc = "handler"
  /\ Len(ops') = Len(ops) + 1
  /\ ops'[Len(ops')].op = name

\* What the operation of the step returned, the Store / Parser calls it made
\* and the response mutations it queued.
Ret == ops'[Len(ops')].ret
NewCalls == SubSeq(log', Len(log) + 1, Len(log'))
HeadersKept == SubSeq(sessionHeaders', 1, Len(sessionHeaders)) = sessionHeaders
NewHeaders == SubSeq(sessionHeaders', Len(sessionHeaders) + 1, Len(sessionHeaders'))
HasData == CtxGet(Cur) # "undefined"

\* C12: saveToStore with data present makes exactly one Store call:
\* Store.set with the current data when isModified is true; otherwise
\* Store.touch if the store defines it, else Store.set with the current data.
C12_SaveToStoreOneCall ==
  [][(Did("saveToStore") /\ HasData) =>
       /\ Len(NewCalls) = 1
       /\ NewCalls[1].op =
            (IF CtxIsModified(Cur) THEN "S.set"
             ELSE IF config.hasTouch THEN "S.touch" ELSE "S.set")
       /\ NewCalls[1].op = "S.set" => NewCalls[1].arg = CtxGet(Cur)]_vars

C12_Witness ==
  /\ pc = "handler"
  /\ config.hasTouch
  /\ Len(ops) = 2
  /\ ops[1].op = "saveToStore"
  /\ ops[2].op = "set"
  /\ Len(log) >= 1
  /\ log[Len(log)].op = "S.touch"
  /\ log[Len(log)].ph = "handler"

\* C13: saveToStore returns the result of the Store call it made, undefined
\* (internal error) included.
C13_SaveToStoreTriState ==
  [][(Did("saveToStore") /\ HasData) => Ret = NewCalls[1].res]_vars

\* C14: regenerate with data present calls Store.create with the current
\* context data; when the create does not fail it then queues the mutation
\* of a Parser.set call made after the create and returns true.
C14_RegenerateCreatesAndEmits ==
  [][(Did("regenerate") /\ HasData) =>
       /\ Len(NewCalls) >= 1
       /\ NewCalls[1].op = "S.create"
       /\ NewCalls[1].arg = CtxGet(Cur)
       /\ NewCalls[1].res # "undefined" =>
            /\ Ret = "true"
            /\ Len(NewCalls) = 2
            /\ NewCalls[2].op = "P.set"
            /\ HeadersKept
            /\ Kinds(NewHeaders) = <<"set">>]_vars

C14_Witness ==
  /\ pc = "handler"
  /\ Len(ops) = 1
  /\ ops[1] = Op("regenerate", "-", "true")
  /\ Len(log) >= 2
  /\ log[Len(log) - 1].op = "S.create"
  /\ log[Len(log) - 1].arg = "d1"
  /\ log[Len(log)].op = "P.set"

\* C15: when the Store.create of regenerate returns undefined, regenerate
\* returns undefined and queues no response mutation (no Parser.set call).
C15_RegenerateFailureEmitsNothing ==
  [][(Did("regenerate") /\ HasData /\ Len(NewCalls) >= 1
        /\ NewCalls[1].res = "undefined") =>
       /\ Ret = "undefined"
       /\ Len(NewCalls) = 1
       /\ sessionHeaders' = sessionHeaders]_vars

C15_Witness ==
  /\ pc = "handler"
  /\ Len(ops) = 1
  /\ ops[1] = Op("regenerate", "-", "undefined")
  /\ log[Len(log)].op = "S.create"
  /\ log[Len(log)].res = "undefined"

\* After a destroy that returned true the handler made no set.
ReadAfterDestroy(j) ==
  \E i \in 1..(j - 1) :
    /\ ops[i].op = "destroy"
    /\ ops[i].ret = "true"
    /\ \A k \in (i + 1)..(j - 1) : ops[k].op # "set"

\* C16: when Store.destroy returns true, destroy sets the context data to
\* absent, queues the mutation of a Parser.remove call and returns true; a
\* get the handler makes afterwards (with no set in between) returns absent.
C16_DestroyClears ==
  /\ [][(Did("destroy") /\ HasData /\ Len(NewCalls) >= 1
           /\ NewCalls[1].res = "true") =>
          /\ Ret = "true"
          /\ CtxGet(Cur)' = "undefined"
          /\ Len(NewCalls) = 2
          /\ NewCalls[1].op = "S.destroy"
          /\ NewCalls[2].op = "P.remove"
          /\ HeadersKept
          /\ Kinds(NewHeaders) = <<"remove">>]_vars
  /\ [](\A j \in 1..Len(ops) :
          (ops[j].op = "get" /\ ReadAfterDestroy(j)) => ops[j].ret = "undefined")

C16_Witness ==
  /\ pc = "handler"
  /\ Len(ops) = 2
  /\ ops[1] = Op("destroy", "-", "true")
  /\ ops[2] = Op("get", "-", "undefined")

\* C17: when Store.destroy returns false or undefined, destroy returns that
\* value, makes no Parser call, and leaves the context data, isModified and
\* the queued response mutations as they were.
C17_DestroyFailureChangesNothing ==
  [][(Did("destroy") /\ HasData /\ Len(NewCalls) >= 1
        /\ NewCalls[1].res \in {"false", "undefined"}) =>
       /\ Ret = NewCalls[1].res
       /\ Len(NewCalls) = 1
       /\ CtxGet(Cur)' = CtxGet(Cur)
       /\ CtxIsModified(Cur)' = CtxIsModified(Cur)
       /\ sessionHeaders' = sessionHeaders]_vars

C17_Witness ==
  /\ pc = "handler"
  /\ Len(ops) = 1
  /\ ops[1] = Op("destroy", "-", "undefined")
  /\ CtxGet(Cur) = "d1"
  /\ log[Len(log)].op = "S.destroy"

\* C18: with the context data absent, saveToStore, regenerate and destroy
\* return false, make no Store or Parser call and queue no response mutation.
C18_NoDataNoCalls ==
  [][(~HasData /\ \E name \in LifecycleOps : Did(name)) =>
       /\ Ret = "false"
       /\ log' = log
       /\ sessionHeaders' = sessionHeaders
       /\ CtxGet(Cur)' = CtxGet(Cur)
       /\ CtxIsModified(Cur)' = CtxIsModified(Cur)]_vars

C18_Witness ==
  /\ pc = "handler"
  /\ CtxGet(Cur) = "undefined"
  /\ Len(ops) = 2
  /\ ops[1] = Op("regenerate", "-", "false")
  /\ ops[2] = Op("destroy", "-", "false")

\* Store.get resolved the cookies of the request to user data.
ResolvedFromCookies ==
  /\ pc \in {"loaded", "handler", "done"}
  /\ Len(log) >= 1
  /\ log[1].op = "S.get"
  /\ log[1].res \notin {"null", "undefined"}

\* C19: once destroy() has returned true for a session, a later request that
\* presents the credential and the payload of that session does not resolve
\* to the session's user data.
C19_DestroyedSessionIsGone == replayed => ~ResolvedFromCookies

\* The request presents the credential and the payload that one store
\* operation wrote, before the expiry time of the payload has passed.
PresentsStoredSession ==
  /\ jar.sid # NoCookie
  /\ jar.data # NoPayload
  /\ ~DecryptFails(Decode(jar.sid), jar.data)
  /\ now <= jar.data.expires

\* C20: the payload and credential written by create(data) or by a later
\* set(data), presented to get(credential) before the expiry time, yield the
\* data that was handed to create or set.
C20_CookieRoundTrip ==
  [][(pc = "idle" /\ pc' # "idle" /\ PresentsStoredSession
        /\ jar.data.given # "undefined") =>
       /\ log'[1].op = "S.get"
       /\ log'[1].res = jar.data.given]_vars

\* The step is the initial loading of a request.
Loads == pc = "idle" /\ pc' # "idle"

\* The request presents a payload that its credential decrypts and whose
\* expiry time has passed.
PresentsExpired ==
  /\ jar.sid # NoCookie
  /\ jar.data # NoPayload
  /\ ~DecryptFails(Decode(jar.sid), jar.data)
  /\ jar.data.expires < now

ClearingKinds == {"remove", "cleardata"}

\* C21: Store.get on a payload whose expiry time is earlier than the current
\* time returns null and emits a clearing response mutation, and the
\* middleware then creates a new session.
C21_ExpiredGetClearsAndCreates ==
  [][(Loads /\ PresentsExpired) =>
       /\ log'[1].op = "S.get"
       /\ log'[1].res = "null"
       /\ \E i \in 1..Len(sessionHeaders') :
            sessionHeaders'[i].kind \in ClearingKinds
       /\ \E i \in 2..Len(log') : log'[i].op = "S.create"]_vars

\* The request presents a payload that its credential does not decrypt.
PresentsUndecryptable ==
  /\ jar.sid # NoCookie
  /\ jar.data # NoPayload
  /\ DecryptFails(Decode(jar.sid), jar.data)

\* C22: when the payload of the request cannot be decrypted with the
\* credential presented, Store.get returns null (not undefined) and emits
\* the mutation that clears the data cookie, and the middleware goes on to
\* create a new session and to the handler instead of answering 500.
C22_UndecryptableIsAbsent ==
  (pc # "idle" /\ PresentsUndecryptable) =>
    /\ Len(log) >= 2
    /\ log[1].op = "S.get"
    /\ log[1].res = "null"
    /\ sessionHeaders[1].kind = "cleardata"
    /\ log[2].op = "S.create"
    /\ pc = "done" => (nextCalls = 1 /\ response.status # 500)

C22_Witness ==
  /\ pc = "done"
  /\ jar.data = GarbledPayload
  /\ log[1] = [op |-> "S.get", arg |-> "s1", res |-> "null", ph |-> "pre"]
  /\ Kinds(response.headers) = <<"cleardata", "data", "set">>
  /\ response.status = 200

\* The step contains a Store.get that returned data / a Store.set that
\* returned true.
GetSucceeds ==
  \E i \in 1..Len(NewCalls) :
    NewCalls[i].op = "S.get" /\ NewCalls[i].res \notin {"null", "undefined"}
SetSucceeds ==
  \E i \in 1..Len(NewCalls) :
    NewCalls[i].op = "S.set" /\ NewCalls[i].res = "true"

\* The data cookie mutation the step emitted last.
LastHeader == sessionHeaders'[Len(sessionHeaders')]

\* C23: under the rolling policy a successful Store.get and a successful
\* Store.set publish (and set persists) the expiry time now + maxAge of the
\* time of the call, which is later than the expiry time of the earlier
\* call when time has passed since.
C23_RollingRecomputes ==
  [][config.rolling =>
       /\ GetSucceeds =>
            /\ sessionMeta'.expiresTime = now + MaxAge
            /\ now > jar.data.expires - MaxAge =>
                 sessionMeta'.expiresTime > jar.data.expires
       /\ SetSucceeds =>
            /\ sessionMeta'.expiresTime = now + MaxAge
            /\ LastHeader.kind = "data"
            /\ LastHeader.expires = now + MaxAge
            /\ now > sessionMeta.expiresTime - MaxAge =>
                 sessionMeta'.expiresTime > sessionMeta.expiresTime]_vars

C23_Witness ==
  /\ config.rolling
  /\ pc = "done"
  /\ now = 1
  /\ jar.data.expires = 2
  /\ log[1].op = "S.get"
  /\ log[1].res = "d1"
  /\ log[Len(log)].op = "S.set"
  /\ log[Len(log)].res = "true"
  /\ sessionMeta.expiresTime = 3
  /\ response.headers[Len(response.headers)].expires = 3

\* The renew rule applied to the expiry time e.
Renewed(e) == IF e - now >= RenewBefore THEN e ELSE now + MaxAge

\* C24: under the renew policy a successful Store.get publishes the expiry
\* time of the payload unchanged when at least renewBefore is left of it and
\* now + maxAge otherwise; a successful Store.set does the same with the
\* published expiry time, and persists the result.
C24_RenewNearExpiry ==
  [][config.renew =>
       /\ GetSucceeds => sessionMeta'.expiresTime = Renewed(jar.data.expires)
       /\ SetSucceeds =>
            /\ sessionMeta'.expiresTime = Renewed(sessionMeta.expiresTime)
            /\ LastHeader.kind = "data"
            /\ LastHeader.expires = Renewed(sessionMeta.expiresTime)]_vars

C24_Witness ==
  /\ config.renew
  /\ pc = "done"
  /\ now = 2
  /\ jar.data.expires = 2
  /\ log[1].op = "S.get"
  /\ log[1].res = "d1"
  /\ log[Len(log)].op = "S.set"
  /\ log[Len(log)].res = "true"
  /\ sessionMeta.expiresTime = 4
  /\ response.headers[Len(response.headers)].expires = 4

\* The session of the request: resolved by Store.get, no other created since.
SameSession ==
  /\ pc # "idle"
  /\ Len(log) >= 1
  /\ log[1].op = "S.get"
  /\ log[1].res \notin {"null", "undefined"}
  /\ \A i \in 1..Len(log) : log[i].op # "S.create"

\* C25: under the fixed policy the expiry time of a session stays the one
\* its payload carries: get publishes it, every set persists it, and a
\* payload whose expiry time has passed does not resolve.
FixedPolicy == ~config.rolling /\ ~config.renew

C25_FixedNeverChanges ==
  /\ []((FixedPolicy /\ SameSession) =>
         /\ sessionMeta # NoMeta => sessionMeta.expiresTime = jar.data.expires
         /\ \A i \in 1..Len(sessionHeaders) :
              sessionHeaders[i].kind = "data" =>
                sessionHeaders[i].expires = jar.data.expires)
  /\ [][(FixedPolicy /\ Loads /\ PresentsExpired) => ~GetSucceeds]_vars

C25_Witness ==
  /\ FixedPolicy
  /\ pc = "done"
  /\ now = 1
  /\ jar.data.expires = 2
  /\ log[1].op = "S.get"
  /\ log[1].res = "d1"
  /\ log[Len(log)].op = "S.set"
  /\ log[Len(log)].res = "true"
  /\ sessionMeta.expiresTime = 2
  /\ response.headers[Len(response.headers)].expires = 2

Misconfigured ==
  config.secret \in {"", "undefined"} \/ (config.rolling /\ config.renew)

\* C26: cookieSessionStore called without a secret, or with rolling and
\* renew both set, throws and gives no store: no request is ever processed
\* with such options, and nothing is left for a request to fail on.
C26_MisconfigurationFailsAtConstruction ==
  /\ Misconfigured => pc \in {"unbuilt", "threw"}
  /\ pc = "threw" =>
       /\ Misconfigured
       /\ Len(ops) = 1
       /\ ops[1].op = "cookieSessionStore"
       /\ ops[1].ret # "none"
       /\ log = <<>>
       /\ nextCalls = 0
       /\ response = NoResponse
  /\ pc \notin {"unbuilt", "threw"} => config \in CookieConfigs

C26_Witness ==
  /\ pc = "threw"
  /\ config.secret = "k"
  /\ config.rolling
  /\ config.renew
  /\ ops[1].ret = "throws: Cannot use both rolling and renew modes at the same time"

\* The last mutation of hs for the credential cookie / the data cookie.
CredKinds == {"set", "remove"}
DataKinds == {"data", "cleardata"}
LastOf(hs, kinds) ==
  LET I == {i \in 1..Len(hs) : hs[i].kind \in kinds} IN
  hs[CHOOSE i \in I : \A k \in I : k <= i]

\* C27: within a request the accumulated response mutations only grow at
\* the end; the response of the non-error path carries them in the order of
\* emission, and for either cookie the client is left with what the last
\* mutation for that cookie wrote.
C27_MutationsAccumulateInOrder ==
  /\ [][pc # "done" => HeadersKept]_vars
  /\ []((pc = "done" /\ response.status = 200) =>
          LET hs == response.headers
              j == ApplyMutations(jar, hs)
          IN /\ hs = sessionHeaders
             /\ (\E i \in 1..Len(hs) : hs[i].kind \in CredKinds) =>
                  j.sid = (IF LastOf(hs, CredKinds).kind = "set"
                             THEN LastOf(hs, CredKinds).sid ELSE NoCookie)
             /\ (\E i \in 1..Len(hs) : hs[i].kind \in DataKinds) =>
                  j.data = (IF LastOf(hs, DataKinds).kind = "data"
                              THEN Payload(LastOf(hs, DataKinds)) ELSE NoPayload))

C27_Witness ==
  /\ pc = "done"
  /\ response.status = 200
  /\ jar.sid = NoCookie
  /\ Kinds(response.headers) = <<"remove", "data", "set", "data">>
  /\ ApplyMutations(jar, response.headers).sid = Encode("s1")
  /\ ApplyMutations(jar, response.headers).data.data = "d0"

\* Store.get did not resolve the credential of the request.
GetReturnedNull ==
  /\ pc # "idle"
  /\ Len(log) >= 1
  /\ log[1].op = "S.get"
  /\ log[1].res = "null"

\* C28: in a request whose Store.get returned null, every Store.set,
\* Store.touch and Store.destroy comes after a Store.create that succeeded,
\* and no payload is written under the credential that failed: the payloads
\* written carry a session id created in the request.
C28_FailedCredentialNotReused ==
  GetReturnedNull =>
    /\ \A j \in 1..Len(log) :
         log[j].op \in {"S.set", "S.touch", "S.destroy"} =>
           \E i \in 1..(j - 1) : log[i].op = "S.create" /\ ~Falsy(log[i].res)
    /\ \A i \in 1..Len(sessionHeaders) :
         sessionHeaders[i].kind = "data" =>
           /\ sessionHeaders[i].sid # cred
           /\ \E k \in 1..(nextId - 1) : sessionHeaders[i].sid = Sid(k)

C28_Witness ==
  /\ pc = "done"
  /\ cred = "s1"
  /\ log[1] = [op |-> "S.get", arg |-> "s1", res |-> "null", ph |-> "pre"]
  /\ log[Len(log)].op = "S.set"
  /\ log[Len(log)].res = "true"
  /\ sessionHeaders[Len(sessionHeaders)].kind = "data"
  /\ sessionHeaders[Len(sessionHeaders)].sid = "s2"

\* C30: sessionUserDataCtx.get() returns the context data and changes
\* neither the data nor isModified, so two calls with no set between them
\* (destroy, which sets the data to undefined, included) return equal values.
C30_GetIsIdempotent ==
  /\ [][Did("get") =>
          /\ Ret = CtxGet(Cur)
          /\ CtxGet(Cur)' = CtxGet(Cur)
          /\ CtxIsModified(Cur)' = CtxIsModified(Cur)]_vars
  /\ [](\A i \in 1..Len(ops) : \A j \in (i + 1)..Len(ops) :
          (/\ ops[i].op = "get"
           /\ ops[j].op = "get"
           /\ \A k \in (i + 1)..(j - 1) : ops[k].op \notin {"set", "destroy"})
            => ops[i].ret = ops[j].ret)

C30_Witness ==
  /\ pc = "handler"
  /\ ~CtxIsModified(Cur)
  /\ ops = <<Op("get", "-", "d1"), Op("get", "-", "d1")>>

\* The set operations of the handler of the request that runs in container c
\* before its i-th operation.
SetsBefore(c, i) == {k \in 1..(i - 1) : c.ops[k].op = "set"}

\* The Store.get / Store.create calls of the initial loading of c.
LoadCalls(c) ==
  {k \in 1..Len(c.log) :
     c.log[k].ph = "pre" /\ c.log[k].op \in {"S.get", "S.create"}}

Last(S) == CHOOSE k \in S : \A m \in S : m <= k

\* The data request c holds before its i-th handler operation, told from the
\* history of c alone: the value of its last set, else what its own initial
\* loading returned.
OwnData(c, i) ==
  IF SetsBefore(c, i) # {} THEN c.ops[Last(SetsBefore(c, i))].arg
  ELSE IF LoadCalls(c) # {} THEN c.log[Last(LoadCalls(c))].res
  ELSE config.defaultData

\* The session of request c, told from its own history: the one its last
\* set-credential mutation names, else the one of the credential it presented.
OwnSession(c) ==
  LET sets == {k \in 1..Len(c.sessionHeaders) : c.sessionHeaders[k].kind = "set"}
  IN IF sets # {} THEN Decode(c.sessionHeaders[Last(sets)].sid)
     ELSE c.cred

\* Everything request c observed and produced follows from its own history.
RunsAsAlone(c) ==
  /\ c.pc \in {"handler", "done"} =>
       /\ c.data = OwnData(c, Len(c.ops) + 1)
       /\ c.modified = (SetsBefore(c, Len(c.ops) + 1) # {})
       /\ c.sessionMeta # NoMeta
       /\ c.sessionMeta.sessionId = OwnSession(c)
  /\ \A i \in 1..Len(c.ops) :
       /\ c.ops[i].op = "get" => c.ops[i].ret = OwnData(c, i)
       /\ c.ops[i].op = "isModified" =>
            c.ops[i].ret = Bool(SetsBefore(c, i) # {})
  /\ \A k \in 1..Len(c.sessionHeaders) :
       c.sessionHeaders[k].kind = "data" /\ c.sessionHeaders[k].given # "undefined"
         => /\ c.sessionHeaders[k].sid = OwnSession(c)
            /\ c.sessionHeaders[k].data = OwnData(c, Len(c.ops) + 1)
  /\ \A k \in 1..Len(c.log) :
       c.log[k].ph = "post" /\ c.log[k].op = "S.set"
         => c.log[k].arg = OwnData(c, Len(c.ops) + 1)
  /\ c.pc = "done" /\ c.response.status = 200
       => c.response.headers = c.sessionHeaders

Created(c) == \E k \in 1..Len(c.log) : c.log[k].op = "S.create"

\* C29: of two requests that run interleaved at their suspension points, each
\* holds the data, the modification flag, the session metadata and the
\* response mutations that its own history alone determines, its response
\* and its Store.set arguments included; a step of one request leaves the
\* context values of the other as they are, and a suspended request resumes
\* with the values it was suspended with (so what holds of the running
\* request when it is suspended holds of it until it resumes).
C29_ConcurrentRequestsIsolated ==
  /\ [](RunsAsAlone(Container))
  /\ [](Created(Container) /\ Created(other)
          => sessionMeta.sessionId # other.sessionMeta.sessionId)
  /\ [][/\ self' = self => other' = other
        /\ self' # self => other' = Container /\ Container' = other]_vars

\* Both requests were interleaved inside their handlers: each has set its
\* own value and read the flag after the other one ran, and both are done.
C29_Witness ==
  /\ pc = "done" /\ other.pc = "done"
  /\ \E i \in 1..Len(ops) : ops[i].op = "set"
  /\ \E i \in 1..Len(other.ops) : other.ops[i].op = "isModified"
  /\ data # other.data
  /\ response.status = 200 /\ other.response.status = 200
  /\ sessionMeta.sessionId # other.sessionMeta.sessionId

\* The positions in the log of the Store.create calls of the step.
CreateCalls ==
  {k \in (Len(log) + 1)..Len(log') : log'[k].op = "S.create"}

\* C31: Store.create of the cookie store allocates a session id that was not
\* in use, publishes that id with the expiry time now + maxAge as the session
\* metadata, emits a data cookie mutation encrypted for that id with that
\* expiry time, and returns the data it was given.
C31_CreateAllocatesAndReturnsData ==
  [][\A k \in CreateCalls :
       /\ sessionMeta'.sessionId = Sid(nextId)
       /\ nextId' = nextId + 1
       /\ sessionMeta'.sessionId # sessionMeta.sessionId
       /\ sessionMeta'.sessionId # Decode(jar.sid)
       /\ sessionMeta'.expiresTime = now + MaxAge
       /\ \E i \in 1..Len(NewHeaders) :
            /\ NewHeaders[i].kind = "data"
            /\ NewHeaders[i].sid = sessionMeta'.sessionId
            /\ NewHeaders[i].expires = now + MaxAge
            /\ NewHeaders[i].data = log'[k].res
       /\ log'[k].arg # "undefined" => log'[k].res = log'[k].arg]_vars

\* The Store calls of the request so far that publish or clear the session
\* metadata: a get that resolved, a create, a destroy.
MetaCalls ==
  {k \in 1..Len(log) :
     \/ log[k].op = "S.get" /\ log[k].res \notin {"null", "undefined"}
     \/ log[k].op \in {"S.create", "S.destroy"}}

\* The session id of the credential mutation emitted last.
LastCredentialSet == Decode(LastOf(sessionHeaders, {"set"}).sid)

\* C32: the session metadata of a request is what the last successful
\* Store.get or Store.create published: get the credential presented, create
\* a new session id, which is the one of the credential mutation that
\* follows it and differs from the credential presented; every payload a
\* later Store.set persists is encrypted for that id with the published
\* expiry time.  After Store.destroy, and before any get or create, there is
\* no metadata.
C32_OneLiveMetadata ==
  LET hs == sessionHeaders IN
  /\ MetaCalls = {} => sessionMeta = NoMeta
  /\ MetaCalls # {} =>
       LET last == log[Last(MetaCalls)] IN
       /\ last.op = "S.destroy" => sessionMeta = NoMeta
       /\ last.op = "S.get" => sessionMeta.sessionId = last.arg
       /\ last.op = "S.create" =>
            /\ \E i \in 1..Len(hs) : hs[i].kind = "set"
            /\ sessionMeta.sessionId = LastCredentialSet
            /\ sessionMeta.sessionId # cred
  /\ \A i \in 1..Len(hs) :
       /\ hs[i].kind = "set" =>
            /\ i > 1
            /\ hs[i - 1].kind = "data"
            /\ hs[i - 1].sid = Decode(hs[i].sid)
            /\ hs[i - 1].expires = hs[i].expires
       /\ (hs[i].kind = "data" /\ \E k \in 1..(i - 1) : hs[k].kind = "set") =>
            LET k == Last({m \in 1..(i - 1) : hs[m].kind = "set"}) IN
            hs[i].sid = Decode(hs[k].sid) \/ (i < Len(hs) /\ hs[i + 1].kind = "set")
  /\ (sessionMeta # NoMeta /\ hs # <<>> /\ hs[Len(hs)].kind = "data") =>
       /\ hs[Len(hs)].sid = sessionMeta.sessionId
       /\ hs[Len(hs)].expires = sessionMeta.expiresTime

\* A request that resolved session s1, regenerated it and then saved: the
\* payload saved is the one of the new session s2.
C32_Witness ==
  /\ pc = "done"
  /\ cred = "s1"
  /\ log[1].op = "S.get"
  /\ log[1].res = "d1"
  /\ \E i \in 1..Len(ops) : ops[i] = Op("regenerate", "-", "true")
  /\ log[Len(log)].op = "S.set"
  /\ log[Len(log)].res = "true"
  /\ sessionMeta.sessionId = "s2"
  /\ response.headers[Len(response.headers)].kind = "data"
  /\ response.headers[Len(response.headers)].sid = "s2"

\* Before the k-th Store call of the request the session metadata is live:
\* a get resolved or a create ran, and no destroy since.
LiveBefore(k) ==
  LET M == {m \in MetaCalls : m < k} IN
  M # {} /\ log[Last(M)].op # "S.destroy"

SetCalls == {k \in 1..Len(log) : log[k].op = "S.set"}

\* C33: Store.set of the cookie store returns true when the session metadata
\* is live, i.e. after a Store.get that resolved or a Store.create of the same
\* request with no Store.destroy since, and false otherwise; a set that
\* returns false emits no mutation (the data cookie mutations of a request
\* are those of its creates and of its sets that returned true) and leaves
\* the metadata absent, and in the autoSave step it makes the response the
\* 401 one.
C33_SetNeedsLiveMetadata ==
  /\ \A k \in SetCalls :
       log[k].res = (IF LiveBefore(k) THEN "true" ELSE "false")
  /\ Cardinality({i \in 1..Len(sessionHeaders) : sessionHeaders[i].kind = "data"})
       = Cardinality({k \in 1..Len(log) :
                        \/ log[k].op = "S.create"
                        \/ log[k].op = "S.set" /\ log[k].res = "true"})
  /\ (log # <<>> /\ log[Len(log)].op = "S.set" /\ log[Len(log)].res = "false") =>
       /\ sessionMeta = NoMeta
       /\ log[Len(log)].ph = "post" =>
            /\ pc = "done"
            /\ response.status = 401
            /\ response.body = "SessionStore Set Failed"

\* A request without a session (nothing created): the handler sets data and
\* the autoSave step answers 401.
C33_Witness ==
  /\ pc = "done"
  /\ config.autoSave
  /\ ~config.autoCreateOnMissing
  /\ cred = "null"
  /\ ops = <<Op("set", "d1", "undefined")>>
  /\ log[Len(log)] = [op |-> "S.set", arg |-> "d1", res |-> "false", ph |-> "post"]
  /\ sessionMeta = NoMeta
  /\ response.status = 401

\* C34: Parser.set of the cookie parser returns a mutation that changes
\* nothing when no session metadata is published, and otherwise one that
\* writes the encoded session id of the metadata with the expiry time of the
\* metadata; Parser.remove returns the mutation that clears the credential
\* cookie, with or without metadata.
C34_ParserSetFollowsMetadata ==
  [][/\ Did("parser.set") =>
          /\ Len(NewHeaders) = 1
          /\ sessionMeta = NoMeta => LastHeader.kind = "noop"
          /\ sessionMeta # NoMeta =>
               /\ LastHeader.kind = "set"
               /\ Decode(LastHeader.sid) = sessionMeta.sessionId
               /\ LastHeader.expires = sessionMeta.expiresTime
     /\ Did("parser.remove") =>
          /\ Len(NewHeaders) = 1
          /\ LastHeader.kind = "remove"
          /\ LastHeader.expires = 0]_vars

\* parser.set was called without metadata and, after a store published
\* metadata, once more.
C34_Witness ==
  /\ Kinds(sessionHeaders) = <<"noop", "set">>
  /\ ops = <<Op("parser.set", "-", "response"), Op("parser.set", "-", "response")>>
  /\ sessionMeta # NoMeta
  /\ sessionHeaders[2].sid = Encode(sessionMeta.sessionId)
  /\ sessionHeaders[2].expires = sessionMeta.expiresTime

\* The Store calls the middleware made itself, before the handler (initial
\* loading) and after it (autoSave); those of phase "handler" are calls of
\* the session methods the handler used.
PreAt == {k \in 1..Len(log) : log[k].ph = "pre"}
PostAt == {k \in 1..Len(log) : log[k].ph = "post"}

\* C35: in a request the middleware itself makes at most one persistence
\* call, a Store.set or a Store.touch, and makes it after the handler has
\* returned; it makes none when autoSave is off or when the context holds no
\* data once the handler has returned.
C35_AtMostOneSave ==
  /\ Cardinality(PostAt) <= 1
  /\ \A k \in PostAt :
       /\ log[k].op \in {"S.set", "S.touch"}
       /\ k = Len(log)
       /\ pc = "done"
       /\ nextCalls = 1
  /\ \A k \in PreAt : log[k].op \notin {"S.set", "S.touch"}
  /\ (~config.autoSave \/ CtxGet(Cur) = "undefined") => PostAt = {}
  /\ (pc = "done" /\ nextCalls = 1 /\ config.autoSave /\ CtxGet(Cur) # "undefined")
       => Cardinality(PostAt) = 1

\* A request whose handler destroyed the session: the context holds no data
\* once the handler has returned, and autoSave made no call.
C35_Witness ==
  /\ pc = "done"
  /\ config.autoSave
  /\ nextCalls = 1
  /\ CtxGet(Cur) = "undefined"
  /\ \E i \in 1..Len(ops) : ops[i] = Op("destroy", "-", "true")
  /\ PostAt = {}
  /\ response.status = 200

\* C36: when every Parser call, every Store call and the handler return, a
\* request that has started ends; it ends with one response, which is a 500
\* response, a 401 response or the handler's response merged with the
\* accumulated mutations, and is not replaced afterwards; the handler is
\* called at most once, and once unless the initial loading failed.
C36_RequestCompletesOnce ==
  /\ (pc # "done") ~> (pc = "done")
  /\ [](/\ nextCalls <= 1
        /\ pc # "done" => response = NoResponse
        /\ pc \in {"idle", "loaded"} => nextCalls = 0
        /\ pc = "handler" => nextCalls = 1
        /\ pc = "done" =>
             /\ \/ response.status = 500 /\ response.headers = <<>>
                \/ response.status = 401 /\ response.headers = <<>>
                \/ response = MergeResponse(sessionHeaders, HandlerResponse)
             /\ nextCalls = 0 =>
                  /\ response.status = 500
                  /\ \E k \in PreAt :
                       log[k].op \in {"S.get", "S.create"} /\ Falsy(log[k].res)
             /\ nextCalls = 1 <=>
                  \A k \in PreAt :
                    /\ log[k].op = "S.get" => log[k].res # "undefined"
                    /\ log[k].op = "S.create" => ~Falsy(log[k].res))
  /\ [][pc = "done" => (response' = response \/ pc' = "idle")]_vars

\* A request has ended with the handler's response merged with the two
\* mutations of its initial loading.
C36_Witness ==
  /\ pc = "done"
  /\ nextCalls = 1
  /\ response.status = 200
  /\ response.body = "handler"
  /\ Len(response.headers) = 2
  /\ response.headers = sessionHeaders

\* C37: the middleware calls Parser.set only right after a Store.create, in
\* the initial loading or in regenerate.  A request whose Store.get resolved
\* the session and whose handler did not regenerate it carries no
\* credential mutation, also when the store published a new expiry time;
\* and the resolving Store.get of the cookie store emits no mutation.
C37_CredentialWrittenOnlyOnCreate ==
  /\ \A k \in 1..Len(log) :
       log[k].op = "P.set" =>
         /\ k > 1
         /\ log[k - 1].op = "S.create"
         /\ log[k - 1].ph = log[k].ph
         /\ log[k].ph = "handler" =>
              \E i \in 1..Len(ops) : ops[i] = Op("regenerate", "-", "true")
  /\ SameSession =>
       /\ \A i \in 1..Len(sessionHeaders) : sessionHeaders[i].kind \notin {"set", "noop"}
       /\ pc = "loaded" => sessionHeaders = <<>>
       /\ pc = "done" =>
            \A i \in 1..Len(response.headers) : response.headers[i].kind # "set"

\* Under the rolling policy a session resolved at time 1 with expiry time 2
\* was saved with expiry time 3; the response has the data cookie only.
C37_Witness ==
  /\ config.rolling
  /\ SameSession
  /\ pc = "done"
  /\ now = 1
  /\ jar.data.expires = 2
  /\ sessionMeta.expiresTime = 3
  /\ Kinds(response.headers) = <<"data">>

\* The step is one of the running request in which the cookie store
\* published an expiry time: a create, a get that resolved, a set that
\* returned true.
Publishes == self' = self /\ (CreateCalls # {} \/ GetSucceeds \/ SetSucceeds)

\* Every expiry time the step published or persisted is at most now + maxAge.
ExpiryBounded ==
  /\ sessionMeta'.expiresTime <= now + config.maxAge
  /\ \A i \in 1..Len(NewHeaders) :
       NewHeaders[i].kind = "data" => NewHeaders[i].expires <= now + config.maxAge

\* The expiry time published is not earlier than the one of the payload the
\* request presented, nor than the one published before in the request.
ExpiryKept ==
  /\ GetSucceeds => sessionMeta'.expiresTime >= jar.data.expires
  /\ (SetSucceeds /\ sessionMeta # NoMeta) =>
       sessionMeta'.expiresTime >= sessionMeta.expiresTime

\* C38 as stated: each expiry time published or persisted by create, get or
\* set is at most now + maxAge, and for one session the published expiry
\* time never decreases from one successful get / set to the next, whichever
\* request makes it.
C38_ExpiryNeverDecreases ==
  [][Publishes =>
       /\ ExpiryBounded
       /\ CreateCalls = {} =>
            /\ ExpiryKept
            /\ other.sessionMeta.sessionId = sessionMeta'.sessionId =>
                 sessionMeta'.expiresTime >= other.sessionMeta.expiresTime]_vars

\* C38, amended: each expiry time published or persisted by create, get or
\* set is at most now + maxAge; a successful get publishes an expiry time
\* not earlier than the one of the payload presented, and a successful set
\* one not earlier than the one published before in the same request.
C38_ExpiryKeptWithinRequest ==
  [][Publishes => (ExpiryBounded /\ (CreateCalls = {} => ExpiryKept))]_vars

\* Under the renew policy a payload with expiry time 3 presented at time 2
\* was renewed to 5 by get, and the autoSave set persisted 5.
C38_Witness ==
  /\ config.renew
  /\ pc = "done"
  /\ now = 2
  /\ jar.data.expires = 3
  /\ sessionMeta.expiresTime = 5
  /\ log[1].op = "S.get"
  /\ log[Len(log)].op = "S.set"
  /\ response.headers[Len(response.headers)].expires = 5

\* C39: regenerate leaves the context as it is: after it has returned,
\* whatever it returned, get() gives the data it gave before the call and
\* isModified the value it had before the call; the autoSave step of a
\* request whose session was resolved and regenerated but not modified is
\* therefore the one of an unmodified session (Store.touch if the store
\* defines it, else Store.set).
C39_RegenerateKeepsContext ==
  /\ [][Did("regenerate") =>
         /\ CtxGet(Cur)' = CtxGet(Cur)
         /\ CtxIsModified(Cur)' = CtxIsModified(Cur)
         /\ AutoSaveOp(CtxGet(Cur)', CtxIsModified(Cur)', config.hasTouch)
              = AutoSaveOp(CtxGet(Cur), CtxIsModified(Cur), config.hasTouch)]_vars
  /\ []((/\ pc = "done"
          /\ config.autoSave
          /\ ResolvedByGet
          /\ ops # <<>>
          /\ \A i \in 1..Len(ops) : ops[i].op = "regenerate")
         => /\ PostAt # {}
            /\ log[Len(log)].op = (IF config.hasTouch THEN "S.touch" ELSE "S.set")
            /\ log[Len(log)].op = "S.set" => log[Len(log)].arg = log[1].res)

\* A resolved session was regenerated, with success, and autoSave touched it.
C39_Witness ==
  /\ pc = "done"
  /\ config.autoSave
  /\ config.hasTouch
  /\ ResolvedByGet
  /\ ops = <<Op("regenerate", "-", "true")>>
  /\ log[Len(log)].op = "S.touch"
  /\ log[Len(log)].ph = "post"
  /\ CtxGet(Cur) = log[1].res

\* The handler's destroy() returned true and it made no set afterwards.
DestroyedAndLeft ==
  \E i \in 1..Len(ops) :
    /\ ops[i] = Op("destroy", "-", "true")
    /\ \A k \in (i + 1)..Len(ops) : ops[k].op # "set"

\* C40: when destroy() has returned true in the handler and no set followed,
\* the autoSave step makes no Store call, and the response is the handler's,
\* merged with the mutations, of which the last one for the credential
\* cookie is the clearing one that destroy emitted.
C40_DestroyedSessionNotSaved ==
  (pc = "done" /\ DestroyedAndLeft) =>
    /\ PostAt = {}
    /\ \A k \in 1..Len(log) :
         log[k].op \in {"S.set", "S.touch"} =>
           \E i \in 1..Len(ops) : ops[i].op = "saveToStore"
    /\ response = MergeResponse(sessionHeaders, HandlerResponse)
    /\ \E i \in 1..Len(response.headers) : response.headers[i].kind \in CredKinds
    /\ LastOf(response.headers, CredKinds).kind = "remove"
    /\ log[Len(log)].op = "P.remove"
    /\ log[Len(log)].ph = "handler"

\* A session created in the initial loading, then destroyed by the handler:
\* the response sets the credential cookie and then clears it.
C40_Witness ==
  /\ pc = "done"
  /\ config.autoSave
  /\ ops = <<Op("destroy", "-", "true")>>
  /\ Kinds(response.headers) = <<"remove", "set", "remove">>
  /\ response.status = 200

====
